---------------------------- MODULE Spec2Model ----------------------------
(***************************************************************************)
(* Model of ACIProvider.GetStatsSummary (src/provider/metrics.go): the     *)
(* mutex-guarded one-slot cache, the cancellation check, the fan-out of    *)
(* one goroutine per running pod under the semaphore channel `sema`, the   *)
(* errgroup join and the deferred cache store.                             *)
(*                                                                         *)
(* Time is counted in ticks of 30 seconds, so time.Minute is 2 ticks.      *)
(* A pointer is a sequence of length 0 (nil) or 1 (the pointed value).     *)
(***************************************************************************)
EXTENDS Integers, Sequences, FiniteSets, Bags, TLC

\* ---- bounds of the model ------------------------------------------------
NumPods == 2       \* pods known to the resource manager in Spec
NumCalls == 2      \* concurrent callers of GetStatsSummary
MaxClock == 4      \* the clock stops ticking here
GatePods == 11     \* running pods in SpecGate (more than the gate admits)
MaxRead == 2       \* entries and network metrics one collectMetrics invocation reads
MaxPoints == 2     \* data points of one time-series entry
MaxSeries == 2     \* time-series entries of one network metric

\* ---- program constants --------------------------------------------------
Minute == 2        \* time.Minute, in ticks of 30 s
SemaCap == 10      \* make(chan struct{}, 10)
ZeroTime == 0      \* the zero time.Time (metricsSyncTime before any store)
NoCall == 0        \* the mutex is unlocked
Million == 1000000 \* nanocores per millicore: to.Float64(data.Average) * 1000000
Sixty == 60        \* usageNanoSeconds := nanoCores * 60

Calls == 1 .. NumCalls

VARIABLES
    clock,            \* time.Now()
    metricsSync,      \* p.metricsSync: the call holding the mutex, or NoCall
    metricsSyncTime,  \* p.metricsSyncTime
    lastMetric,       \* p.lastMetric (pointer to a Summary)
    callPc,           \* position of each GetStatsSummary invocation
    ctxDone,          \* whether the context of each invocation is cancelled
    pods,             \* pods of the round: what GetPods() returned, pod -> Status.Phase
    taskPc,           \* position of the goroutine of each pod in the current round
    taskRet,          \* return value of each goroutine's function
    sema,             \* tasks whose token is in the sema channel
    chResult,         \* the PodStats buffered in the channel chResult (a bag: arrival order is not kept)
    chCap,            \* its capacity, len(pods)
    errGroupErr,      \* errgroup.Group: the first non-nil error returned by a task
    window,           \* (start, end) of the round
    issued,           \* history: the GetContainerGroupMetrics calls of the current round (a bag)
    late,             \* history: a call of the current round was issued after the clock left `end`
    preCache,         \* history: the cache slot when the current invocation took the mutex
    lastOk,           \* history: the latest round that returned a nil error
    ret,              \* history: the latest return of GetStatsSummary since the last fan-out
    mPc,              \* position of a collectMetrics invocation
    stat,             \* collectMetrics: the PodStats being built
    containerStats,   \* collectMetrics: the map from container name to its ContainerStats
    nRead,            \* the time-series entries and network metrics the invocation has read
    cur,              \* history: the entry or metric the invocation read last
    attributed        \* history: <<container, metric>> of the entries that reached the switch

vars == << clock, metricsSync, metricsSyncTime, lastMetric, callPc,
           ctxDone, pods, taskPc, taskRet, sema, chResult, chCap,
           errGroupErr, window, issued, late, preCache, lastOk, ret,
           mPc, stat, containerStats, nRead, cur, attributed >>

callVars == << clock, metricsSync, metricsSyncTime, lastMetric, callPc,
               ctxDone, preCache, lastOk, ret >>
roundVars == << pods, taskPc, taskRet, sema, chResult, chCap, errGroupErr,
               window, issued, late >>
mergeVars == << mPc, stat, containerStats, nRead, cur, attributed >>

Phases == {"Running", "Pending"}
\* What the resource manager may hand to a round: every pod in some phase.
PodLists == [1 .. NumPods -> Phases]
\* In SpecGate: more running pods than the gate admits.
GatePodLists == {[p \in 1 .. GatePods |-> "Running"]}
NoPods == << >>

Tasks == DOMAIN pods
RunningPods == {p \in DOMAIN pods : pods[p] = "Running"}

\* ---- values -------------------------------------------------------------
Nil == << >>
Ptr(v) == << v >>

NilErr == << "nil" >>
CtxErr == << "context canceled" >>
Pending == << "pending" >>
SystemErr == << "error fetching cpu/mem stats" >>
NetErr == << "error fetching network stats" >>
\* errors.Wrap(err, "error in request to fetch container group metrics")
Wrap(err) == << "error in request to fetch container group metrics", err >>

Cache == [lastMetric |-> lastMetric, metricsSyncTime |-> metricsSyncTime]
NoCache == [lastMetric |-> Nil, metricsSyncTime |-> ZeroTime]

\* The two MetricsRequest values of a task.
SystemRequest(cgName, w) ==
    [cg |-> cgName, Dimension |-> "containerName eq '*'",
     Types |-> {"CpuUsage", "MemoryUsage"}, Start |-> w[1], End |-> w[2]]
NetRequest(cgName, w) ==
    [cg |-> cgName, Dimension |-> "",
     Types |-> {"NetworkBytesReceivedPerSecond", "NetworkBytesTransmittedPerSecond"},
     Start |-> w[1], End |-> w[2]]

\* Start: start, End: end: a request carries the two values read before the
\* fan-out, whenever it is issued (now).
RequestWindowAtCall(w, now) == << now - Minute, now >>
RequestWindow(w, now) == w

\* The PodStats a task hands over: its PodRef identifies the pod.
PodStats(pod) == [PodRef |-> pod]

\* The Summary built from the drained channel.
Summary(stats) == [Node |-> "node", Pods |-> stats]

NoRet == [how |-> "none", summary |-> Nil, err |-> NilErr]
NoRound == [running |-> {}, failed |-> {}, returned |-> Nil, at |-> ZeroTime]

\* ---- pure helpers of GetStatsSummary ------------------------------------
\* time.Since(p.metricsSyncTime) < time.Minute
FreshCacheStrict(now, syncTime) == now - syncTime < Minute - 1
FreshCacheInclusive(now, syncTime) == now - syncTime <= Minute
FreshCache(now, syncTime) == now - syncTime < Minute

\* The order of the two early returns: the cache check, then the select on
\* ctx.Done(); "round" when neither returns.
CheckOutcomeCancelFirst(fresh, cancelled) ==
    IF cancelled THEN "cancel" ELSE IF fresh THEN "cache" ELSE "round"
CheckOutcome(fresh, cancelled) ==
    IF fresh THEN "cache" ELSE IF cancelled THEN "cancel" ELSE "round"

\* pod.Status.Phase != v1.PodRunning => continue
ShouldSpawnAll(phase) == TRUE
ShouldSpawn(phase) == phase = "Running"

\* p.metricsSync.Lock() returns only when no other call holds the mutex.
MutexFreeAlways(m) == TRUE
MutexFree(m) == m = NoCall

\* sema <- struct{}{} can proceed while the channel holds fewer than 10 tokens.
CanSendOffByOne(s) == Cardinality(s) <= SemaCap
CanSend(s) == Cardinality(s) < SemaCap

\* Between the second fetch and the hand-off nothing touches sema: the token
\* stays in the channel.
SemaAfterFetchReleased(s, t) == s \ {t}
SemaAfterFetch(s, t) == s

\* The deferred <-sema of a returning goroutine.
SemaAfterReturnKept(s, t) == s
SemaAfterReturn(s, t) == s \ {t}

\* The deferred function: the cache slot after the return of (summary, err).
DeferredStoreAlways(err, summary, now, cache) ==
    [lastMetric |-> summary, metricsSyncTime |-> now]
DeferredStoreStamp(err, summary, now, cache) ==
    IF err # NilErr THEN [lastMetric |-> cache.lastMetric, metricsSyncTime |-> now]
    ELSE [lastMetric |-> summary, metricsSyncTime |-> now]
DeferredStore(err, summary, now, cache) ==
    IF err # NilErr THEN cache
    ELSE [lastMetric |-> summary, metricsSyncTime |-> now]

\* case <-ctx.Done(): return ctx.Err()
GateExitNil == NilErr
GateExit == CtxErr

\* errgroup.Group keeps the first non-nil error (errOnce).
GroupErr(g, err) == IF g = NilErr THEN err ELSE g

\* errGroup.Wait() returns once every goroutine started by Go has returned.
AnyReturned(pc) == \E p \in DOMAIN pc : pc[p] = "done"
AllReturned(pc) == \A p \in DOMAIN pc : pc[p] \in {"none", "done"}

\* The result of one GetContainerGroupMetrics call: a call made on a
\* cancelled context fails with the context's error, any other call
\* succeeds or fails as the remote service decides (outcome).
Outcomes == {"ok", "fail"}
CallResult(outcome, cancelled) ==
    IF cancelled THEN "ctx" ELSE outcome

\* After a successful cpu/mem call the task goes on to the network call.
AfterSystemSkipNet == "send"
AfterSystem == "net"

Failed(rets) == {p \in DOMAIN rets : rets[p] \notin {Pending, NilErr}}

\* ---- collectMetrics: values ----------------------------------------------
\* A float64 is counted in halves (5 is 2.5): uint64(f) truncates.
Uint64(halves) == halves \div 2

\* strings.ToLower on the metadata names that occur.
MetaNames == {"containerName", "CONTAINERNAME", "region"}
ToLower(name) ==
    CASE name = "containerName" -> "containername"
      [] name = "CONTAINERNAME" -> "containername"
      [] OTHER -> name

\* The data points (Average in halves, TimeStamp a pointer).
Points == {[Average |-> 2, TimeStamp |-> Ptr(1)],
           [Average |-> 5, TimeStamp |-> Nil]}
SeqsUpTo(S, n) == UNION {[1 .. k -> S] : k \in 0 .. n}
\* entry.Data: nil, or a pointer to up to MaxPoints points.
DataValues == {Nil} \cup {Ptr(d) : d \in SeqsUpTo(Points, MaxPoints)}
\* entry.Metadatavalues: nil, or a pointer to the name/value pairs.
MetaValues ==
    {Nil, Ptr(<< >>),
     Ptr(<< [Name |-> "region", Value |-> "a"] >>),
     Ptr(<< [Name |-> "region", Value |-> "b"],
            [Name |-> "containerName", Value |-> "a"] >>),
     Ptr(<< [Name |-> "CONTAINERNAME", Value |-> "b"] >>)}
Entries == [Data : DataValues, Metadatavalues : MetaValues]
SystemNames == {"CpuUsage", "MemoryUsage", "Other"}
NetNames == {"NetworkBytesReceivedPerSecond",
             "NetworkBytesTransmittedPerSecond", "Other"}
\* The time series of a network metric: the first entry is any entry without
\* dimensions, the later ones carry one point each.
NetEntries == [Data : DataValues, Metadatavalues : {Ptr(<< >>)}]
LaterEntries == {e \in NetEntries : e.Data # Nil /\ Len(e.Data[1]) = 1}
NetSeries ==
    {<< >>} \cup
    {<< e >> \o l : e \in NetEntries, l \in SeqsUpTo(LaterEntries, MaxSeries - 1)}

NoInput == [Name |-> "", Kind |-> "none"]
NoContainers == [n \in {} |-> Nil]
\* var stat stats.PodStats; stat.StartTime = pod.CreationTimestamp
ZeroStat == [StartTime |-> "created", CPU |-> Nil, Memory |-> Nil,
             Network |-> Nil, Containers |-> Nil, PodRef |-> Nil]
\* &stats.ContainerStats{Name: ..., StartTime: stat.StartTime}
NewContainerStats(name) ==
    [Name |-> name, StartTime |-> "created", CPU |-> Nil, Memory |-> Nil]

\* metav1.NewTime(data.TimeStamp.ToTime()), or the zero Time for a nil pointer
Timestamp(data) == IF data.TimeStamp # Nil THEN data.TimeStamp[1] ELSE ZeroTime

\* data := entryData[len(entryData)-1]
LastPointFirst(entryData) == entryData[1]
LastPoint(entryData) == entryData[Len(entryData)]

\* entry := (*m.Timeseries)[0]
FirstEntryLast(series) == series[Len(series)]
FirstEntry(series) == series[1]

\* entry.Data == nil || len(*entry.Data) == 0
NoData(entry) == entry.Data = Nil \/ Len(entry.Data[1]) = 0

\* cs = containerStats[name]; if cs == nil, a new one is put into the map.
LookupOrCreateAlways(map, name) ==
    [n \in DOMAIN map \cup {name} |->
        IF n = name THEN NewContainerStats(name) ELSE map[n]]
LookupOrCreate(map, name) ==
    [n \in DOMAIN map \cup {name} |->
        IF n \in DOMAIN map THEN map[n] ELSE NewContainerStats(name)]

\* The loop over *entry.Metadatavalues: cs ends as (the name of) the
\* accumulator of the last value named containerName, nil when there is none.
RECURSIVE Attribute(_, _, _)
Attribute(meta, cs, map) ==
    IF meta = << >> THEN [cs |-> cs, containerStats |-> map]
    ELSE LET v == Head(meta) IN
         IF ToLower(v.Name) # "containername"
         THEN Attribute(Tail(meta), cs, map)
         ELSE Attribute(Tail(meta), Ptr(v.Value), LookupOrCreate(map, v.Value))

\* case string(aci.MetricTypeCPUUsage)
CPUOf(data) ==
    LET nanoCores == Uint64(data.Average * Million) IN
    [Time |-> Timestamp(data), UsageNanoCores |-> nanoCores,
     UsageCoreNanoSeconds |-> nanoCores * Sixty]
PodCPU(podCPU, data) ==
    LET c == CPUOf(data)
        old == IF podCPU = Nil
               THEN [Time |-> c.Time, UsageNanoCores |-> 0, UsageCoreNanoSeconds |-> 0]
               ELSE podCPU[1] IN
    Ptr([Time |-> old.Time,
         UsageNanoCores |-> old.UsageNanoCores + c.UsageNanoCores,
         UsageCoreNanoSeconds |-> old.UsageCoreNanoSeconds + c.UsageCoreNanoSeconds])

\* case string(aci.MetricTypeMemoryUsage)
MemoryOf(data) ==
    LET bytes == Uint64(data.Average) IN
    [Time |-> Timestamp(data), UsageBytes |-> bytes, WorkingSetBytes |-> bytes]
PodMemory(podMem, data) ==
    LET m == MemoryOf(data)
        old == IF podMem = Nil
               THEN [Time |-> m.Time, UsageBytes |-> 0, WorkingSetBytes |-> 0]
               ELSE podMem[1] IN
    Ptr([Time |-> old.Time,
         UsageBytes |-> old.UsageBytes + m.UsageBytes,
         WorkingSetBytes |-> old.UsageBytes + m.UsageBytes])

\* One round of the loop over *m.Timeseries of a cpu/mem metric named name:
\* the state after it, or "panic" for the dereference of a nil pointer.
SystemStep(st, map, name, entry) ==
    IF NoData(entry) THEN [panic |-> FALSE, stat |-> st, containerStats |-> map, cs |-> Nil]
    ELSE IF entry.Metadatavalues = Nil
    THEN [panic |-> TRUE, stat |-> st, containerStats |-> map, cs |-> Nil]
    ELSE
    LET at == Attribute(entry.Metadatavalues[1], Nil, map)
        data == LastPoint(entry.Data[1])
    IN
    IF at.cs = Nil
    THEN [panic |-> FALSE, stat |-> st, containerStats |-> at.containerStats, cs |-> Nil]
    ELSE
    LET c == at.cs[1]
        st1 == IF st.Containers = Nil THEN [st EXCEPT !.Containers = Ptr(<< >>)] ELSE st
        m1 == at.containerStats
    IN
    CASE name = "CpuUsage" ->
           [panic |-> FALSE, cs |-> at.cs,
            containerStats |-> [m1 EXCEPT ![c].CPU = Ptr(CPUOf(data))],
            stat |-> [st1 EXCEPT !.CPU = PodCPU(st1.CPU, data)]]
      [] name = "MemoryUsage" ->
           [panic |-> FALSE, cs |-> at.cs,
            containerStats |-> [m1 EXCEPT ![c].Memory = Ptr(MemoryOf(data))],
            stat |-> [st1 EXCEPT !.Memory = PodMemory(st1.Memory, data)]]
      [] OTHER ->
           [panic |-> FALSE, cs |-> at.cs, containerStats |-> m1, stat |-> st1]

\* One round of the loop over *net.Value for a metric named name.
NetStep(st, name, series) ==
    LET n0 == IF st.Network = Nil
              THEN [Time |-> ZeroTime, Name |-> "", RxBytes |-> Nil, TxBytes |-> Nil]
              ELSE st.Network[1]
        st1 == [st EXCEPT !.Network = Ptr(n0)]
    IN
    IF Len(series) = 0 THEN st1
    ELSE IF NoData(FirstEntry(series)) THEN st1
    ELSE
    LET data == LastPoint(FirstEntry(series).Data[1])
        bytes == Uint64(data.Average)
        n1 == CASE name = "NetworkBytesReceivedPerSecond" -> [n0 EXCEPT !.RxBytes = Ptr(bytes)]
                [] name = "NetworkBytesTransmittedPerSecond" -> [n0 EXCEPT !.TxBytes = Ptr(bytes)]
                [] OTHER -> n0
        n2 == IF data.TimeStamp # Nil THEN [n1 EXCEPT !.Time = data.TimeStamp[1]] ELSE n1
    IN
    [st EXCEPT !.Network = Ptr([n2 EXCEPT !.Name = "eth0"])]

\* The orders in which the range over the map may visit its keys.
Orders(S) == {o \in [1 .. Cardinality(S) -> S] : \A n \in S : \E i \in DOMAIN o : o[i] = n}

\* ---- initial states -----------------------------------------------------
Init ==
    /\ clock = Minute
    /\ metricsSync = NoCall
    /\ metricsSyncTime = ZeroTime
    /\ lastMetric = Nil
    /\ callPc = [c \in Calls |-> "idle"]
    /\ ctxDone = [c \in Calls |-> FALSE]
    /\ pods = NoPods
    /\ taskPc = NoPods
    /\ taskRet = NoPods
    /\ sema = {}
    /\ chResult = EmptyBag
    /\ chCap = 0
    /\ errGroupErr = NilErr
    /\ window = << ZeroTime, ZeroTime >>
    /\ issued = EmptyBag
    /\ late = FALSE
    /\ preCache = NoCache
    /\ lastOk = NoRound
    /\ ret = NoRet
    /\ mPc = "idle"
    /\ stat = ZeroStat
    /\ containerStats = NoContainers
    /\ nRead = 0
    /\ cur = NoInput
    /\ attributed = {}

\* ---- the environment ----------------------------------------------------
Tick ==
    /\ clock < MaxClock
    /\ clock' = clock + 1
    /\ UNCHANGED << metricsSync, metricsSyncTime, lastMetric, callPc,
                    ctxDone, roundVars, mergeVars, preCache, lastOk, ret >>

\* The caller cancels the context of a call that is inside GetStatsSummary.
Cancel(c) ==
    /\ callPc[c] \in {"check", "wait"}
    /\ ~ctxDone[c]
    /\ ctxDone' = [ctxDone EXCEPT ![c] = TRUE]
    /\ UNCHANGED << clock, metricsSync, metricsSyncTime, lastMetric,
                    callPc, roundVars, mergeVars, preCache, lastOk, ret >>

\* ---- GetStatsSummary ----------------------------------------------------
\* A caller invokes GetStatsSummary(ctx): the call blocks in Lock().
Invoke(c) ==
    /\ callPc[c] = "idle"
    /\ callPc' = [callPc EXCEPT ![c] = "lock"]
    /\ UNCHANGED << clock, metricsSync, metricsSyncTime, lastMetric,
                    ctxDone, roundVars, mergeVars, preCache, lastOk, ret >>

\* p.metricsSync.Lock() returns; cancelled tells whether ctx, which nothing
\* has read so far, is already cancelled.
Lock(c, cancelled) ==
    /\ callPc[c] = "lock"
    /\ MutexFree(metricsSync)
    /\ metricsSync' = c
    /\ callPc' = [callPc EXCEPT ![c] = "check"]
    /\ ctxDone' = [ctxDone EXCEPT ![c] = cancelled]
    /\ preCache' = Cache
    /\ UNCHANGED << clock, metricsSyncTime, lastMetric, roundVars, mergeVars,
                    lastOk, ret >>

\* The deferred p.metricsSync.Unlock() of a returning call; the call and its
\* context are over.
Unlock(c) ==
    /\ metricsSync' = NoCall
    /\ callPc' = [callPc EXCEPT ![c] = "idle"]
    /\ ctxDone' = [ctxDone EXCEPT ![c] = FALSE]
    /\ preCache' = NoCache

\* return p.lastMetric, nil
ReturnCached(c) ==
    /\ callPc[c] = "check"
    /\ CheckOutcome(FreshCache(clock, metricsSyncTime), ctxDone[c]) = "cache"
    /\ ret' = [how |-> "cache", summary |-> lastMetric, err |-> NilErr]
    /\ Unlock(c)
    /\ UNCHANGED << clock, metricsSyncTime, lastMetric, roundVars, mergeVars,
                    lastOk >>

\* case <-ctx.Done(): return nil, ctx.Err()
ReturnCancelled(c) ==
    /\ callPc[c] = "check"
    /\ CheckOutcome(FreshCache(clock, metricsSyncTime), ctxDone[c]) = "cancel"
    /\ ret' = [how |-> "cancel", summary |-> Nil, err |-> CtxErr]
    /\ Unlock(c)
    /\ UNCHANGED << clock, metricsSyncTime, lastMetric, roundVars, mergeVars,
                    lastOk >>

\* pods := GetPods() returns list; the channel, the window and the semaphore are made and
\* one goroutine is started per running pod; the call then blocks in Wait.
Fanout(c, list) ==
    /\ callPc[c] = "check"
    /\ CheckOutcome(FreshCache(clock, metricsSyncTime), ctxDone[c]) = "round"
    /\ callPc' = [callPc EXCEPT ![c] = "wait"]
    /\ pods' = list
    /\ chCap' = Len(list)
    /\ chResult' = EmptyBag
    /\ window' = << clock - Minute, clock >>
    /\ sema' = {}
    /\ errGroupErr' = NilErr
    /\ taskPc' = [p \in DOMAIN list |-> IF ShouldSpawn(list[p]) THEN "select" ELSE "none"]
    /\ taskRet' = [p \in DOMAIN list |-> Pending]
    /\ issued' = EmptyBag
    /\ late' = FALSE
    /\ ret' = NoRet
    /\ UNCHANGED << clock, metricsSync, metricsSyncTime, lastMetric,
                    ctxDone, preCache, lastOk, mergeVars >>

\* ---- the goroutine of one pod -------------------------------------------
\* ctx of the goroutines: the context of the call that started the round.
RoundCtxDone == \E c \in Calls : callPc[c] = "wait" /\ ctxDone[c]

\* The goroutine returns err: the deferred <-sema, and errgroup records the
\* first error.
TaskReturns(t, err) ==
    /\ taskPc' = [taskPc EXCEPT ![t] = "done"]
    /\ taskRet' = [taskRet EXCEPT ![t] = err]
    /\ errGroupErr' = GroupErr(errGroupErr, err)

\* select: case sema <- struct{}{}
Acquire(t) ==
    /\ taskPc[t] = "select"
    /\ CanSend(sema)
    /\ sema' = sema \cup {t}
    /\ taskPc' = [taskPc EXCEPT ![t] = "sys"]
    /\ UNCHANGED << callVars, mergeVars, pods, chCap, window, taskRet, chResult,
                    errGroupErr, issued, late >>

\* select: case <-ctx.Done(): return ctx.Err()
ExitCancelled(t) ==
    /\ taskPc[t] = "select"
    /\ RoundCtxDone
    /\ TaskReturns(t, GateExit)
    /\ UNCHANGED << callVars, mergeVars, pods, chCap, window, sema, chResult,
                    issued, late >>

\* systemStats, err := GetContainerGroupMetrics(cpu, memory); on an error the
\* goroutine returns the wrapped error.
CallSystem(t, outcome) ==
    /\ taskPc[t] = "sys"
    /\ issued' = issued (+) SetToBag({SystemRequest(t, RequestWindow(window, clock))})
    /\ late' = (late \/ clock > window[2])
    /\ IF CallResult(outcome, RoundCtxDone) = "ok"
       THEN /\ taskPc' = [taskPc EXCEPT ![t] = AfterSystem]
            /\ UNCHANGED << taskRet, errGroupErr, sema >>
       ELSE /\ TaskReturns(t, SystemErr)
            /\ sema' = SemaAfterReturn(sema, t)
    /\ UNCHANGED << callVars, mergeVars, pods, chCap, window, chResult >>

\* netStats, err := GetContainerGroupMetrics(network rx, tx)
CallNet(t, outcome) ==
    /\ taskPc[t] = "net"
    /\ issued' = issued (+) SetToBag({NetRequest(t, RequestWindow(window, clock))})
    /\ late' = (late \/ clock > window[2])
    /\ IF CallResult(outcome, RoundCtxDone) = "ok"
       THEN /\ taskPc' = [taskPc EXCEPT ![t] = "send"]
            /\ sema' = SemaAfterFetch(sema, t)
            /\ UNCHANGED << taskRet, errGroupErr >>
       ELSE /\ TaskReturns(t, NetErr)
            /\ sema' = SemaAfterReturn(sema, t)
    /\ UNCHANGED << callVars, mergeVars, pods, chCap, window, chResult >>

\* chResult <- collectMetrics(pod, systemStats, netStats); return nil
Send(t) ==
    /\ taskPc[t] = "send"
    /\ BagCardinality(chResult) < chCap
    /\ chResult' = chResult (+) SetToBag({PodStats(t)})
    /\ TaskReturns(t, NilErr)
    /\ sema' = SemaAfterReturn(sema, t)
    /\ UNCHANGED << callVars, mergeVars, pods, chCap, window, issued, late >>

\* ---- the end of a round ---------------------------------------------------
\* What the return of (summary, err) does: the deferred function stores the
\* cache slot, the deferred Unlock releases the mutex, and the round's
\* goroutines, which have all returned, are gone with the round's locals.
Returns(c, how, summary, err) ==
    LET after == DeferredStore(err, summary, clock, Cache) IN
    /\ ret' = [how |-> how, summary |-> summary, err |-> err]
    /\ lastMetric' = after.lastMetric
    /\ metricsSyncTime' = after.metricsSyncTime
    /\ lastOk' = IF err # NilErr THEN lastOk
                 ELSE [running |-> RunningPods, failed |-> Failed(taskRet),
                       returned |-> summary, at |-> clock]
    /\ Unlock(c)
    /\ pods' = NoPods
    /\ taskPc' = NoPods
    /\ taskRet' = NoPods
    /\ chResult' = EmptyBag
    /\ chCap' = 0
    /\ errGroupErr' = NilErr
    /\ window' = << ZeroTime, ZeroTime >>
    /\ issued' = EmptyBag
    /\ late' = FALSE
    /\ UNCHANGED << clock, sema, mergeVars >>

\* errGroup.Wait() returned an error: return nil, errors.Wrap(err, ...)
WaitError(c) ==
    /\ callPc[c] = "wait"
    /\ AllReturned(taskPc)
    /\ errGroupErr # NilErr
    /\ Returns(c, "error", Nil, Wrap(errGroupErr))

\* errGroup.Wait() returned nil: close and drain chResult, return &s, nil
WaitOk(c) ==
    /\ callPc[c] = "wait"
    /\ AllReturned(taskPc)
    /\ errGroupErr = NilErr
    /\ Returns(c, "round", Ptr(Summary(chResult)), NilErr)

\* ---- specifications -----------------------------------------------------
Next ==
    \/ Tick
    \/ \E c \in Calls : Cancel(c)
    \/ \E c \in Calls : Invoke(c)
    \/ \E c \in Calls, cancelled \in BOOLEAN : Lock(c, cancelled)
    \/ \E c \in Calls : ReturnCached(c)
    \/ \E c \in Calls : ReturnCancelled(c)
    \/ \E c \in Calls, list \in PodLists : Fanout(c, list)
    \/ \E t \in Tasks : Acquire(t)
    \/ \E t \in Tasks : ExitCancelled(t)
    \/ \E t \in Tasks, o \in Outcomes : CallSystem(t, o)
    \/ \E t \in Tasks, o \in Outcomes : CallNet(t, o)
    \/ \E t \in Tasks : Send(t)
    \/ \E c \in Calls : WaitError(c)
    \/ \E c \in Calls : WaitOk(c)

Spec == Init /\ [][Next]_vars

\* SpecGate: one round after another over GatePods running pods, to see the
\* gate full.  The goroutines run the same code and differ in nothing but
\* the name of their pod, so of the tasks standing at the same place the
\* least-numbered one takes the step; the remote service fails only for the
\* first and the last pod; no context is cancelled and the clock stands.
Least(t) == \A u \in Tasks : taskPc[u] = taskPc[t] => t <= u
GateOutcomes(t) == IF t = 1 \/ t = Len(pods) THEN Outcomes ELSE {"ok"}

NextGate ==
    \/ \E c \in Calls : Invoke(c)
    \/ \E c \in Calls : Lock(c, FALSE)
    \/ \E c \in Calls : ReturnCached(c)
    \/ \E c \in Calls, list \in GatePodLists : Fanout(c, list)
    \/ \E t \in Tasks : Least(t) /\ Acquire(t)
    \/ \E t \in Tasks : Least(t) /\ \E o \in GateOutcomes(t) : CallSystem(t, o)
    \/ \E t \in Tasks : Least(t) /\ \E o \in GateOutcomes(t) : CallNet(t, o)
    \/ \E t \in Tasks : Least(t) /\ Send(t)
    \/ \E c \in Calls : WaitError(c)
    \/ \E c \in Calls : WaitOk(c)

SpecGate == Init /\ [][NextGate]_vars

\* SpecLive: the rounds of SpecGate with cancellation, under the fairness of
\* the Go scheduler, a goroutine that can run does run (a select with a ready
\* case proceeds, a send into a channel with room completes, Wait returns
\* once all have returned), and the hypothesis that every remote call
\* returns.  Of the tasks at the select the least-numbered acquires and the
\* greatest-numbered leaves on cancellation.
Greatest(t) == \A u \in Tasks : taskPc[u] = taskPc[t] => u <= t
SelectStep ==
    \E t \in Tasks : (Least(t) /\ Acquire(t)) \/ (Greatest(t) /\ ExitCancelled(t))
SystemCallStep == \E t \in Tasks : Least(t) /\ \E o \in GateOutcomes(t) : CallSystem(t, o)
NetCallStep == \E t \in Tasks : Least(t) /\ \E o \in GateOutcomes(t) : CallNet(t, o)
SendStep == \E t \in Tasks : Least(t) /\ Send(t)
WaitStep == \E c \in Calls : WaitError(c) \/ WaitOk(c)
\* The caller cancels when the gate has just filled: ten tasks hold it, none
\* has issued a call, and the others stand at the select.
CancelGateFull(c) ==
    /\ Cardinality(sema) = SemaCap
    /\ \A t \in sema : taskPc[t] = "sys"
    /\ issued = EmptyBag
    /\ Cancel(c)

NextLive ==
    \/ \E c \in Calls : Invoke(c)
    \/ \E c \in Calls, cancelled \in BOOLEAN : Lock(c, cancelled)
    \/ \E c \in Calls : CancelGateFull(c)
    \/ \E c \in Calls : ReturnCached(c)
    \/ \E c \in Calls : ReturnCancelled(c)
    \/ \E c \in Calls, list \in GatePodLists : Fanout(c, list)
    \/ SelectStep
    \/ SystemCallStep
    \/ NetCallStep
    \/ SendStep
    \/ WaitStep

Fairness ==
    /\ WF_vars(SelectStep)
    /\ WF_vars(SystemCallStep)
    /\ WF_vars(NetCallStep)
    /\ WF_vars(SendStep)
    /\ WF_vars(WaitStep)

SpecLive == Init /\ [][NextLive]_vars /\ Fairness

\* ---- collectMetrics: steps -----------------------------------------------
\* collectMetrics(pod, system, net) is called.
Begin ==
    /\ mPc = "idle"
    /\ mPc' = "system"
    /\ UNCHANGED << callVars, roundVars, stat, containerStats, nRead, cur, attributed >>

\* for _, entry := range *m.Timeseries, m.Name.Value = name
SystemEntry(name, entry) ==
    LET r == SystemStep(stat, containerStats, name, entry) IN
    /\ mPc = "system"
    /\ nRead < MaxRead
    /\ nRead' = nRead + 1
    /\ cur' = [Name |-> name, Kind |-> "system", Entry |-> entry]
    /\ mPc' = IF r.panic THEN "panic" ELSE "system"
    /\ stat' = r.stat
    /\ containerStats' = r.containerStats
    /\ attributed' = IF r.cs = Nil THEN attributed
                     ELSE attributed \cup {<< r.cs[1], name >>}
    /\ UNCHANGED << callVars, roundVars >>

\* for _, m := range *net.Value, m.Name.Value = name, *m.Timeseries = series
NetMetric(name, series) ==
    /\ mPc \in {"system", "net"}
    /\ nRead < MaxRead
    /\ nRead' = nRead + 1
    /\ cur' = [Name |-> name, Kind |-> "net", Timeseries |-> series]
    /\ mPc' = "net"
    /\ stat' = NetStep(stat, name, series)
    /\ UNCHANGED << callVars, roundVars, containerStats, attributed >>

\* The range over containerStats in some order, stat.PodRef, return stat.
ReturnStat(order) ==
    /\ mPc \in {"system", "net"}
    /\ mPc' = "returned"
    /\ stat' = [stat EXCEPT
                  !.Containers =
                      IF order = << >> THEN stat.Containers
                      ELSE Ptr([i \in DOMAIN order |-> containerStats[order[i]]]),
                  !.PodRef = Ptr("pod")]
    /\ UNCHANGED << callVars, roundVars, containerStats, nRead, cur, attributed >>

NextMerge ==
    \/ Begin
    \/ \E name \in SystemNames, entry \in Entries : SystemEntry(name, entry)
    \/ \E name \in NetNames, series \in NetSeries : NetMetric(name, series)
    \/ \E order \in Orders(DOMAIN containerStats) : ReturnStat(order)

SpecMerge == Init /\ [][NextMerge]_vars

\* ---- properties ----------------------------------------------------------
Sys(p) == SystemRequest(p, window)
Net(p) == NetRequest(p, window)
SysCalls(p) == CopiesIn(Sys(p), issued)
NetCalls(p) == CopiesIn(Net(p), issued)
FetchFailed == {p \in Tasks : taskRet[p] \in {SystemErr, NetErr}}
GateExited == {p \in Tasks : taskRet[p] = CtxErr}

\* By the history alone: a round succeeded and stored less than a minute ago.
HistFresh == lastOk # NoRound /\ clock - lastOk.at < Minute
\* Call c leaves the cache check, or the wait for its tasks, in this step.
CheckStep(c) == callPc[c] = "check" /\ callPc'[c] # "check"
RoundEnd(c) == callPc[c] = "wait" /\ callPc'[c] # "wait"
CacheHit == [how |-> "cache", summary |-> lastOk.returned, err |-> NilErr]
CacheKept == lastMetric' = preCache.lastMetric /\ metricsSyncTime' = preCache.metricsSyncTime

\* C1: a call whose cache check comes less than one minute after the
\* timestamp stored by the latest successful round returns the Summary that
\* round returned, reads no pod list, starts no task and issues no
\* GetContainerGroupMetrics call.
C1_CacheFreshness ==
    [][\A c \in Calls :
          (CheckStep(c) /\ HistFresh /\ lastOk.failed = {})
          => (ret' = CacheHit /\ UNCHANGED roundVars)]_vars

C1_Witness ==
    /\ ret.how = "cache"
    /\ lastOk.running # {}
    /\ ret.summary = lastOk.returned
    /\ ret.summary # Nil
    /\ clock = lastOk.at + 1

\* C2: a round in which the cpu/mem call or the network call of at least one
\* task failed returns an error and no Summary, and leaves lastMetric and
\* metricsSyncTime as they were when the call took the mutex.
C2_FailFast ==
    [][\A c \in Calls :
          (RoundEnd(c) /\ FetchFailed # {})
          => (ret'.err # NilErr /\ ret'.summary = Nil /\ CacheKept)]_vars

C2_Witness ==
    /\ ret.how = "error"
    /\ ret.err = Wrap(NetErr)
    /\ lastMetric # Nil
    /\ lastOk.running # {}

\* C3: the cache slot is empty, or holds the Summary returned by a round in
\* which no task failed, with exactly one PodStats for every pod that was
\* Running when that round read the pod list and none for any other pod.
C3_CacheComplete ==
    \/ Cache = NoCache
    \/ /\ lastOk # NoRound
       /\ lastOk.failed = {}
       /\ metricsSyncTime = lastOk.at
       /\ lastMetric = lastOk.returned
       /\ lastMetric # Nil
       /\ BagToSet(lastMetric[1].Pods) = {PodStats(p) : p \in lastOk.running}
       /\ \A p \in lastOk.running : CopiesIn(PodStats(p), lastMetric[1].Pods) = 1

C3_Witness ==
    /\ lastMetric # Nil
    /\ ret.how = "error"
    /\ Cardinality(lastOk.running) = 1
    /\ BagCardinality(lastMetric[1].Pods) = 1

\* C4: never more than 10 tokens are in sema, and never more than 10 tasks
\* are between acquiring and releasing the gate.
C4_GateBound ==
    /\ Cardinality(sema) <= SemaCap
    /\ Cardinality({t \in Tasks : taskPc[t] \in {"sys", "net", "send"}}) <= SemaCap

C4_Witness ==
    /\ Cardinality(sema) = SemaCap
    /\ \E t \in Tasks : taskPc[t] = "select"
    /\ \E t \in Tasks : taskPc[t] = "send"

\* C5: at most one call is between its cache check and its return, and that
\* call holds the mutex.
C5_RoundExclusion ==
    /\ Cardinality({c \in Calls : callPc[c] \in {"check", "wait"}}) <= 1
    /\ \A c \in Calls : callPc[c] \in {"check", "wait"} => metricsSync = c

C5_Witness ==
    \E c, d \in Calls :
        /\ callPc[c] = "wait"
        /\ callPc[d] = "lock"
        /\ \E t \in Tasks : taskPc[t] = "net"

\* C6: a call whose context is not cancelled and whose cache check comes a
\* minute or more after the latest successful round stored (or when none
\* has succeeded) returns nothing from the cache: it starts a round with a
\* task for every Running pod, and when that round ends with the context
\* still not cancelled, a cpu/mem call was issued for every Running pod.
C6_CacheStaleness ==
    [][\A c \in Calls :
          /\ (CheckStep(c) /\ ~ctxDone[c] /\ ~HistFresh)
             => /\ callPc'[c] = "wait"
                /\ ret' = NoRet
                /\ \A p \in DOMAIN pods' :
                      pods'[p] = "Running" => taskPc'[p] = "select"
          /\ (RoundEnd(c) /\ ~ctxDone[c])
             => \A p \in RunningPods : SysCalls(p) >= 1]_vars

C6_Witness ==
    \E c \in Calls :
        /\ callPc[c] = "wait"
        /\ ~ctxDone[c]
        /\ AllReturned(taskPc)
        /\ lastOk # NoRound
        /\ window[2] - lastOk.at >= Minute
        /\ Cardinality(RunningPods) >= 2
        /\ \A p \in RunningPods : SysCalls(p) = 1

\* C7: a call whose context is cancelled at the cache check returns the
\* cached Summary when the cache is fresh, and otherwise the cancellation
\* error; either way it reads no pod list, starts no task, issues no call
\* and leaves the cache slot alone.
C7_CancellationCheck ==
    [][\A c \in Calls :
          (CheckStep(c) /\ ctxDone[c])
          => /\ UNCHANGED << roundVars, metricsSyncTime, lastMetric >>
             /\ IF HistFresh
                THEN ret' = CacheHit
                ELSE ret' = [how |-> "cancel", summary |-> Nil, err |-> CtxErr]]_vars

C7_Witness ==
    /\ ret.how = "cancel"
    /\ ret.err = CtxErr
    /\ lastMetric # Nil
    /\ clock - metricsSyncTime >= Minute

\* C8 as stated: once the context of a round that has tasks is cancelled, no
\* task still at the gate acquires it, and the round returns an error and
\* leaves the cache slot as it was.
C8_Original ==
    [][\A c \in Calls :
          (callPc[c] = "wait" /\ ctxDone[c] /\ RunningPods # {})
          => /\ \A t \in Tasks :
                   (taskPc[t] = "select" /\ t \in DOMAIN taskPc')
                   => taskPc'[t] \in {"select", "done"}
             /\ RoundEnd(c) => (ret'.err # NilErr /\ CacheKept)]_vars

\* C8 amended: a task leaves the gate without acquiring it only when the
\* context is cancelled, then returns the cancellation error and has issued
\* no call; and a round in which some task returned the cancellation error
\* returns an error, no Summary, and leaves the cache slot as it was.
C8_CancelledAtGate ==
    [][/\ \A t \in Tasks :
             (t \in DOMAIN taskPc' /\ taskPc[t] = "select" /\ taskPc'[t] = "done")
             => /\ RoundCtxDone
                /\ taskRet'[t] = CtxErr
                /\ SysCalls(t) + NetCalls(t) = 0
                /\ issued' = issued
       /\ \A c \in Calls :
             (RoundEnd(c) /\ GateExited # {})
             => (ret'.err # NilErr /\ ret'.summary = Nil /\ CacheKept)]_vars

C8_Witness ==
    \E c \in Calls :
        /\ callPc[c] = "wait"
        /\ ctxDone[c]
        /\ AllReturned(taskPc)
        /\ \E t, u \in Tasks : taskRet[t] = CtxErr /\ taskRet[u] = NilErr

\* C9 as stated: a task holds the gate during its two remote calls and no
\* longer: not while it merges and hands over its result.
C9_Original ==
    \A t \in Tasks : t \in sema <=> taskPc[t] \in {"sys", "net"}

\* C9 amended: a task holds the gate from before its first remote call until
\* it returns: through both calls, the merge and the hand-over.
C9_GateHeldUntilReturn ==
    /\ sema \subseteq Tasks
    /\ \A t \in Tasks : t \in sema <=> taskPc[t] \in {"sys", "net", "send"}

C9_Witness ==
    \E t \in Tasks :
        /\ taskPc[t] = "send"
        /\ t \in sema
        /\ SysCalls(t) = 1
        /\ NetCalls(t) = 1

\* C10 as stated: when the tasks of a round have all returned, exactly the
\* two calls were issued for every Running pod.
C10_Original ==
    \A c \in Calls :
        (callPc[c] = "wait" /\ AllReturned(taskPc))
        => \A p \in RunningPods : SysCalls(p) = 1 /\ NetCalls(p) = 1

\* C10 amended: for every Running pod at most the two calls are issued, the
\* network call only after the cpu/mem call; both for a task that returned
\* nil or failed in the network call, the cpu/mem call alone for a task that
\* failed in it, none for a task that left at the gate; and no other call.
C10_TwoCallsPerTarget ==
    /\ BagToSet(issued) \subseteq
          {Sys(p) : p \in RunningPods} \cup {Net(p) : p \in RunningPods}
    /\ \A p \in RunningPods :
          /\ SysCalls(p) <= 1
          /\ NetCalls(p) <= SysCalls(p)
          /\ NetCalls(p) = 1 => taskPc[p] \in {"send", "done"}
          /\ taskRet[p] \in {NilErr, NetErr} => (SysCalls(p) = 1 /\ NetCalls(p) = 1)
          /\ taskRet[p] = SystemErr => (SysCalls(p) = 1 /\ NetCalls(p) = 0)
          /\ taskRet[p] = CtxErr => (SysCalls(p) = 0 /\ NetCalls(p) = 0)

C10_Witness ==
    \E c \in Calls :
        /\ callPc[c] = "wait"
        /\ AllReturned(taskPc)
        /\ \E p, q \in RunningPods :
              /\ taskRet[p] = NilErr
              /\ SysCalls(p) = 1 /\ NetCalls(p) = 1
              /\ taskRet[q] = SystemErr
              /\ SysCalls(q) = 1 /\ NetCalls(q) = 0

\* C17: the window of a round is [T - 1 minute, T] for the time T at which
\* the round fans out, it stays the same for as long as the round lasts, and
\* every GetContainerGroupMetrics call of the round, of either family and
\* however late it is issued, carries that window.
C17_SharedWindow ==
    [][\A c \in Calls :
          /\ (callPc[c] = "check" /\ callPc'[c] = "wait")
             => window' = << clock - Minute, clock >>
          /\ (callPc[c] = "wait" /\ callPc'[c] = "wait")
             => /\ window' = window
                /\ \A r \in BagToSet(issued') :
                      r.Start = window[1] /\ r.End = window[2]]_vars

C17_Witness ==
    \E c \in Calls :
        /\ callPc[c] = "wait"
        /\ late
        /\ clock > window[2]
        /\ \E p, q \in RunningPods :
              /\ p # q
              /\ SysCalls(p) = 1 /\ NetCalls(p) = 1
              /\ SysCalls(q) = 1 /\ NetCalls(q) = 1
              /\ Sys(p).End = window[2] /\ Net(q).Start = window[2] - Minute

\* C18: with more running pods than the gate admits, every round ends, with
\* the mutex released and no token left in sema; when it ends every task has
\* returned, having acquired the gate or left it on cancellation; and a task
\* that is to hand over its result always finds room in chResult.
C18_RoundTermination ==
    /\ (\E c \in Calls : callPc[c] = "wait")
          ~> (/\ metricsSync = NoCall
              /\ sema = {}
              /\ \A c \in Calls : callPc[c] # "wait")
    /\ [](\A t \in Tasks :
             taskPc[t] = "send" => BagCardinality(chResult) < chCap)
    /\ [][\A c \in Calls :
             RoundEnd(c)
             => \A t \in RunningPods :
                   /\ taskPc[t] = "done"
                   /\ taskRet[t] # Pending
                   /\ taskRet[t] # CtxErr => SysCalls(t) = 1
                   /\ t \notin sema]_vars

C18_Witness ==
    \E c \in Calls :
        /\ callPc[c] = "wait"
        /\ Cardinality(RunningPods) > SemaCap
        /\ AllReturned(taskPc)
        /\ sema = {}
        /\ BagCardinality(chResult) = chCap
        /\ errGroupErr = NilErr

\* C19 as stated: every call that follows a failed round starts a new round.
C19_Original ==
    [][\A c \in Calls :
          (CheckStep(c) /\ ret.how = "error") => callPc'[c] = "wait"]_vars

\* C19 amended: a round starts only when the slot is empty or its timestamp
\* is a minute old or older; a round that returns an error returns no Summary
\* and leaves the slot and its timestamp alone; and a call whose cache check
\* follows the return of a failed round, or of a call that returned the
\* cancellation error, returns nothing from the cache: it starts a new round
\* when its context is not cancelled and returns the cancellation error when
\* it is.
C19_NoHitAfterFailure ==
    [][\A c \in Calls :
          /\ (callPc[c] = "check" /\ callPc'[c] = "wait")
             => (lastMetric = Nil \/ clock - metricsSyncTime >= Minute)
          /\ (RoundEnd(c) /\ ret'.err # NilErr)
             => /\ ret'.summary = Nil
                /\ lastMetric' = lastMetric
                /\ metricsSyncTime' = metricsSyncTime
          /\ (CheckStep(c) /\ ret.how \in {"error", "cancel"})
             => IF ctxDone[c]
                THEN ret' = [how |-> "cancel", summary |-> Nil, err |-> CtxErr]
                ELSE callPc'[c] = "wait" /\ ret' = NoRet]_vars

C19_Witness ==
    \E c \in Calls :
        /\ callPc[c] = "check"
        /\ ~ctxDone[c]
        /\ ret.how = "error"
        /\ ret.summary = Nil
        /\ lastMetric # Nil
        /\ metricsSyncTime = lastOk.at
        /\ clock - metricsSyncTime >= Minute

\* C20: a call leaves its wait, with an error or with a Summary, only when
\* every task of the round has returned and no token is left in sema; the
\* step in which a task returns an error cancels no context and moves no
\* other task; and outside a round there are no tasks and no tokens.
C20_JoinBeforeReturn ==
    [][/\ \A c \in Calls :
             RoundEnd(c)
             => /\ \A t \in Tasks : taskPc[t] \in {"none", "done"}
                /\ \A t \in RunningPods : taskPc[t] = "done" /\ taskRet[t] # Pending
                /\ sema = {}
                /\ BagCardinality(chResult) =
                      Cardinality({t \in Tasks : taskRet[t] = NilErr})
       /\ \A t \in Tasks :
             (t \in DOMAIN taskRet' /\ taskRet[t] = Pending
                 /\ taskRet'[t] \notin {Pending, NilErr})
             => /\ ctxDone' = ctxDone
                /\ callPc' = callPc
                /\ \A u \in Tasks \ {t} : taskPc'[u] = taskPc[u]
       /\ (\A c \in Calls : callPc'[c] # "wait")
             => (DOMAIN taskPc' = {} /\ sema' = {} /\ chResult' = EmptyBag)]_vars

C20_Witness ==
    \E c \in Calls :
        /\ callPc[c] = "wait"
        /\ ~ctxDone[c]
        /\ errGroupErr = SystemErr
        /\ \E t, u \in RunningPods :
              /\ taskRet[t] = SystemErr
              /\ taskPc[u] = "send"
              /\ u \in sema
              /\ NetCalls(u) = 1

\* ---- properties of collectMetrics ------------------------------------------
Returned == mPc = "returned"
\* The ContainerStats of the returned PodStats.
SubUnits == IF stat.Containers = Nil THEN << >> ELSE stat.Containers[1]
RECURSIVE SumSeq(_)
SumSeq(q) == IF q = << >> THEN 0 ELSE Head(q) + SumSeq(Tail(q))
CpuCores(c) == IF c.CPU = Nil THEN 0 ELSE c.CPU[1].UsageNanoCores
CpuSeconds(c) == IF c.CPU = Nil THEN 0 ELSE c.CPU[1].UsageCoreNanoSeconds
MemBytes(c) == IF c.Memory = Nil THEN 0 ELSE c.Memory[1].UsageBytes
\* This step reads a compute entry / a network metric (it is cur afterwards).
ReadsSystem == nRead' = nRead + 1 /\ cur'.Kind = "system"
ReadsNet == nRead' = nRead + 1 /\ cur'.Kind = "net"
HasPoints(entry) == entry.Data # Nil /\ entry.Data[1] # << >>
\* The values of the entry's metadata named containerName in any spelling.
NamedContainers(entry) ==
    IF entry.Metadatavalues = Nil THEN << >>
    ELSE SelectSeq(entry.Metadatavalues[1],
                   LAMBDA v : v.Name \in {"containerName", "CONTAINERNAME"})
Final(q) == q[Len(q)]

\* C11 as stated: in the returned PodStats the pod-level UsageNanoCores and
\* UsageCoreNanoSeconds equal the sums of the containers' values, and the
\* pod-level memory bytes the sum of the containers' memory bytes.
C11_RollupSum ==
    Returned =>
        /\ stat.CPU # Nil =>
              /\ stat.CPU[1].UsageNanoCores =
                    SumSeq([i \in DOMAIN SubUnits |-> CpuCores(SubUnits[i])])
              /\ stat.CPU[1].UsageCoreNanoSeconds =
                    SumSeq([i \in DOMAIN SubUnits |-> CpuSeconds(SubUnits[i])])
        /\ stat.Memory # Nil =>
              stat.Memory[1].UsageBytes =
                    SumSeq([i \in DOMAIN SubUnits |-> MemBytes(SubUnits[i])])

\* C12: when a CpuUsage entry with data points is attributed to a container,
\* that container's UsageNanoCores is the last point's average times
\* 1,000,000, its UsageCoreNanoSeconds is that times 60 and its CPU time is
\* the last point's timestamp; and the step leaves the state it would leave
\* had the entry held its last point alone.
C12_LastPointWins ==
    [][(ReadsSystem /\ cur'.Name = "CpuUsage" /\ HasPoints(cur'.Entry)
          /\ NamedContainers(cur'.Entry) # << >>)
       => LET entry == cur'.Entry
              last == Final(entry.Data[1])
              c == Final(NamedContainers(entry)).Value
              alone == SystemStep(stat, containerStats, "CpuUsage",
                                  [entry EXCEPT !.Data = Ptr(<< last >>)])
          IN
          /\ c \in DOMAIN containerStats'
          /\ containerStats'[c].CPU # Nil
          /\ 2 * containerStats'[c].CPU[1].UsageNanoCores = last.Average * Million
          /\ containerStats'[c].CPU[1].UsageCoreNanoSeconds =
                containerStats'[c].CPU[1].UsageNanoCores * Sixty
          /\ containerStats'[c].CPU[1].Time =
                (IF last.TimeStamp = Nil THEN ZeroTime ELSE last.TimeStamp[1])
          /\ stat' = alone.stat
          /\ containerStats' = alone.containerStats]_vars

C12_Witness ==
    /\ mPc = "system"
    /\ cur.Kind = "system"
    /\ cur.Name = "CpuUsage"
    /\ HasPoints(cur.Entry)
    /\ Len(cur.Entry.Data[1]) = 2
    /\ cur.Entry.Data[1][1].Average = 2
    /\ cur.Entry.Data[1][2].Average = 5
    /\ "a" \in DOMAIN containerStats
    /\ containerStats["a"].CPU # Nil
    /\ containerStats["a"].CPU[1].UsageNanoCores = 2500000
    /\ containerStats["a"].CPU[1].UsageCoreNanoSeconds = 150000000

\* C13 as stated: reading a compute entry that has data points and no
\* metadata value named containerName (or no metadata at all) raises no
\* error and changes neither the containers nor the pod-level values.
C13_UnattributedSkip ==
    [][(ReadsSystem /\ HasPoints(cur'.Entry) /\ NamedContainers(cur'.Entry) = << >>)
       => /\ mPc' = "system"
          /\ stat' = stat
          /\ containerStats' = containerStats]_vars

\* C14: reading a network metric consults the first entry of its time series
\* alone, and of it the last point: the received-bytes metric sets RxBytes and
\* the transmitted-bytes metric TxBytes, from that point; the step leaves the
\* state it would leave had the series held its first entry alone.
C14_NetworkSingleSample ==
    [][(ReadsNet /\ cur'.Timeseries # << >>)
       => LET series == cur'.Timeseries
              first == series[1]
              before == IF stat.Network = Nil
                        THEN [RxBytes |-> Nil, TxBytes |-> Nil]
                        ELSE stat.Network[1]
              after == stat'.Network[1]
          IN
          /\ stat'.Network # Nil
          /\ stat' = NetStep(stat, cur'.Name, << first >>)
          /\ containerStats' = containerStats
          /\ IF HasPoints(first)
             THEN LET bytes == Final(first.Data[1]).Average \div 2 IN
                  /\ after.RxBytes =
                        IF cur'.Name = "NetworkBytesReceivedPerSecond"
                        THEN Ptr(bytes) ELSE before.RxBytes
                  /\ after.TxBytes =
                        IF cur'.Name = "NetworkBytesTransmittedPerSecond"
                        THEN Ptr(bytes) ELSE before.TxBytes
             ELSE /\ after.RxBytes = before.RxBytes
                  /\ after.TxBytes = before.TxBytes]_vars

C14_Witness ==
    /\ mPc = "net"
    /\ cur.Kind = "net"
    /\ cur.Name = "NetworkBytesReceivedPerSecond"
    /\ Len(cur.Timeseries) = 2
    /\ HasPoints(cur.Timeseries[1])
    /\ Final(cur.Timeseries[1].Data[1]).Average = 5
    /\ Final(cur.Timeseries[2].Data[1]).Average = 2
    /\ stat.Network # Nil
    /\ stat.Network[1].RxBytes = Ptr(2)
    /\ stat.Network[1].TxBytes = Nil

\* C16: the returned PodStats holds no two ContainerStats of one name, holds
\* exactly one for every name an entry was attributed to, and that one
\* carries the CPU of the CpuUsage entries and the memory of the MemoryUsage
\* entries attributed to the name.
C16_KeyUniqueness ==
    Returned =>
        /\ \A i, j \in DOMAIN SubUnits :
              SubUnits[i].Name = SubUnits[j].Name => i = j
        /\ \A a \in attributed :
              \E i \in DOMAIN SubUnits :
                 /\ SubUnits[i].Name = a[1]
                 /\ a[2] = "CpuUsage" => SubUnits[i].CPU # Nil
                 /\ a[2] = "MemoryUsage" => SubUnits[i].Memory # Nil

C16_Witness ==
    /\ Returned
    /\ << "a", "CpuUsage" >> \in attributed
    /\ << "a", "MemoryUsage" >> \in attributed
    /\ Len(SubUnits) = 1
    /\ SubUnits[1].CPU # Nil
    /\ SubUnits[1].Memory # Nil

=============================================================================
